---- MODULE Spec2Model ----
(***************************************************************************)
(* AgriPredict backend (src/app.py): the weather cache and the three       *)
(* weather-dependent request handlers as a multi-threaded state machine,   *)
(* and the pure rule functions (alerts, suitability, yield labels) as      *)
(* operators applied to inputs drawn from bounded sets.                    *)
(*                                                                         *)
(* Units.  Time (datetime.now(), forecast 'dt', snapshot timestamps) is    *)
(* counted in whole minutes.  Temperatures, humidity and rainfall are      *)
(* whole numbers, soil pH is counted in tenths (6.5 is 65).  Scores, which *)
(* are Python floats, are exact fixed-point numbers counted in 1/Scale of  *)
(* a point (100 points is 100 * Scale).                                    *)
(***************************************************************************)
EXTENDS Integers, Sequences, FiniteSets, TLC

VARIABLES
    now,            \* the wall clock read by datetime.now(), in minutes
    weather_cache,  \* the global dict weather_cache: cache key -> snapshot
    model_loaded,   \* the global flag set by load_ml_model at startup
    api_key,        \* whether OPENWEATHER_API_KEY is set in the environment
    req,            \* per request thread: its position and its locals
    args,           \* input of a direct call of a rule function / predict_yield
    result          \* what that call returned

vars == <<now, weather_cache, model_loaded, api_key, req, args, result>>

(***************************************************************************)
(* Bounds of the model.                                                    *)
(***************************************************************************)
NThreads == 2
MaxTicks == 2
MaxDry == 9

Threads == 1..NThreads

(***************************************************************************)
(* Python values.                                                          *)
(***************************************************************************)
None == [none |-> TRUE]
EmptyDict == <<>>
Get(d, k, default) == IF k \in DOMAIN d THEN d[k] ELSE default
\* not v, for a request parameter: an absent one (None) is modelled as ""
Truthy(v) == v # ""
Abs(x) == IF x < 0 THEN -x ELSE x
Max(a, b) == IF a >= b THEN a ELSE b
Min(a, b) == IF a <= b THEN a ELSE b

\* A call that returned v, and a call that raised exception e.
Ok(v) == [exc |-> "", value |-> v]
Raise(e) == [exc |-> e]
Raised(r) == r.exc # ""

\* The fixed-point unit of a float: 0.05, 1.5 and a mean of three are exact in it.
Scale == 60
Points(n) == n * Scale

\* datetime.isoformat() and datetime.fromisoformat(): a string and its parse.
isoformat(t) == <<"iso", t>>
fromisoformat(s) == s[2]
\* datetime.fromtimestamp(): the forecast's 'dt' on the clock's minute axis.
fromtimestamp(dt) == dt

(***************************************************************************)
(* Names bound at module level of app.py.  LANGUAGES, which the alert and  *)
(* suitability code subscripts, is not among them: evaluating it raises    *)
(* NameError.                                                              *)
(***************************************************************************)
ModuleGlobals ==
    { "Flask", "request", "jsonify", "send_from_directory", "CORS", "pd", "np",
      "RandomForestRegressor", "requests", "os", "load_dotenv", "Nominatim",
      "joblib", "datetime", "timedelta", "json", "COMPREHENSIVE_TRANSLATIONS",
      "INDIAN_LANGUAGES", "get_translation", "get_supported_languages",
      "threading", "time", "app", "predictor", "model_loaded", "weather_cache",
      "location_cache", "TRANSLATIONS" }

\* LANGUAGES[language][key]
LANGUAGES(language, key) ==
    IF "LANGUAGES" \in ModuleGlobals
    THEN Ok(<<language, key>>)
    ELSE Raise("NameError")

(***************************************************************************)
(* analyze_weather_alerts (src/app.py 77-124).  An alert dict is built     *)
(* field by field: its 'message' subscripts LANGUAGES, and an exception    *)
(* raised there leaves the function at once.                               *)
(***************************************************************************)
AlertDict(type, severity, message, icon, color) ==
    IF Raised(message)
    THEN message
    ELSE Ok([type |-> type, severity |-> severity, message |-> message.value,
             icon |-> icon, color |-> color])

\* alerts.append(d) where building d may have raised.
AppendAlert(alerts, d) ==
    IF Raised(d) THEN d ELSE Ok(Append(alerts, d.value))

\* (datetime.fromtimestamp(item['dt']) - datetime.now()).total_seconds(), in minutes
MinutesUntil(item, t) == fromtimestamp(item.dt) - t
\* hours <= 2, with hours = seconds / 3600
WithinTwoHours(item, t) == MinutesUntil(item, t) <= 120
\* int(hours): truncation toward zero
IntHours(item, t) ==
    LET m == MinutesUntil(item, t)
    IN IF m >= 0 THEN m \div 60 ELSE -((-m) \div 60)

\* forecast['list'][:8]
FirstSlots(list) == SubSeq(list, 1, Min(8, Len(list)))

\* The for loop over the slots: the first slot that has 'rain' and is at most
\* two hours away appends the alert and breaks; any other slot is passed over.
RECURSIVE RainLoop(_, _, _, _, _)
RainLoop(items, i, alerts, language, t) ==
    IF i > Len(items)
    THEN Ok(alerts)
    ELSE IF "rain" \in DOMAIN items[i] /\ WithinTwoHours(items[i], t)
         THEN AppendAlert(alerts,
                  AlertDict("rain", "medium",
                      LET m == LANGUAGES(language, "rain_expected")
                      IN IF Raised(m) THEN m
                         ELSE Ok(<<m.value, IntHours(items[i], t)>>),
                      "fas fa-cloud-rain", "blue"))
         ELSE RainLoop(items, i + 1, alerts, language, t)

analyze_weather_alerts(weather_data, language, t) ==
    IF weather_data = None \/ "current" \notin DOMAIN weather_data
    THEN Ok(<<>>)
    ELSE
      LET current == weather_data.current
          forecast == Get(weather_data, "forecast", EmptyDict)
          temp == Get(Get(current, "main", EmptyDict), "temp", 0)
          humidity == Get(Get(current, "main", EmptyDict), "humidity", 100)
          heat == IF temp > 35
                  THEN AppendAlert(<<>>,
                           AlertDict("heat_stress", "high",
                               LANGUAGES(language, "heat_stress"),
                               "fas fa-sun", "red"))
                  ELSE Ok(<<>>)
          rain == IF Raised(heat) THEN heat
                  ELSE IF "list" \in DOMAIN forecast
                       THEN RainLoop(FirstSlots(forecast.list), 1, heat.value,
                                     language, t)
                       ELSE heat
          drought == IF Raised(rain) THEN rain
                     ELSE IF humidity < 30 /\ temp > 30
                          THEN AppendAlert(rain.value,
                                   AlertDict("drought", "high",
                                       LANGUAGES(language, "drought_warning"),
                                       "fas fa-sun", "orange"))
                          ELSE rain
      IN drought

(***************************************************************************)
(* calculate_crop_suitability (src/app.py 126-145).  The result is a float *)
(* counted in 1/Scale of a point.  A missing 'main', 'temp' or 'humidity'  *)
(* raises KeyError inside the try, and the bare except returns 50.         *)
(***************************************************************************)
temp_score(temp) == Max(0, Points(100) - Abs(temp - 25) * 2 * Scale)
\* The humidity weighted like the temperature: abs(humidity - 60) * 2.
humidity_score_double(humidity) ==
    Max(0, Points(100) - Abs(humidity - 60) * 2 * Scale)
\* abs(humidity - 60) * 1.5
humidity_score(humidity) ==
    Max(0, Points(100) - (Abs(humidity - 60) * 3 * Scale) \div 2)
\* abs(ph - 6.5) * 20, with ph in tenths: abs(ph10 - 65) / 10 * 20
ph_score(soil_data) ==
    Max(0, Points(100) - Abs(Get(soil_data, "ph", 65) - 65) * 2 * Scale)

calculate_crop_suitability(crop, weather_data, soil_data) ==
    IF weather_data = None \/ ~model_loaded
    THEN Points(50)
    ELSE IF \/ "current" \notin DOMAIN weather_data
            \/ "main" \notin DOMAIN weather_data.current
            \/ "temp" \notin DOMAIN weather_data.current.main
            \/ "humidity" \notin DOMAIN weather_data.current.main
         THEN Points(50)
         ELSE LET main == weather_data.current.main
                  overall_score ==
                      (temp_score(main.temp) + humidity_score(main.humidity)
                         + ph_score(soil_data)) \div 3
              IN Min(Points(100), Max(0, overall_score))

\* The if/elif chain of crop_suitability (src/app.py 278-292).
Category(suitability) ==
    IF suitability >= Points(80) THEN "excellent"
    ELSE IF suitability >= Points(60) THEN "good"
    ELSE IF suitability >= Points(40) THEN "moderate"
    ELSE IF suitability >= Points(20) THEN "poor"
    ELSE "very_poor"

(***************************************************************************)
(* The request threads.  A thread serves one request: it enters a handler  *)
(* with the request's inputs, runs it to its return and stays there with   *)
(* its locals and its response.  calls counts the thread's invocations of  *)
(* get_weather_data; seen records what the cache held for the request's    *)
(* key when the handler was entered, and fresh whether that entry was then *)
(* less than ten minutes old.                                              *)
(***************************************************************************)
Languages == {"en", "hi"}

\* The requests the clients send.  "12.0" and "12.00" are different keys; an
\* absent parameter is "".
WeatherRequests ==
    { [lat |-> "12.0", lon |-> "77.0"], [lat |-> "12.00", lon |-> "77.0"],
      [lat |-> "", lon |-> "77.0"] }
AlertRequests ==
    { [lat |-> "12.0", lon |-> "77.0", lang |-> "en"],
      [lat |-> "12.0", lon |-> "", lang |-> "hi"] }
SuitabilityRequests ==
    { [crop |-> "Wheat", latitude |-> "12.0", longitude |-> "77.0",
       soil |-> EmptyDict, language |-> "en"],
      [crop |-> "", latitude |-> "12.0", longitude |-> "77.0",
       soil |-> EmptyDict, language |-> "en"] }

\* What the provider answers: the 'current' and the 'forecast' resource.
CurrentPayloads ==
    { [main |-> [temp |-> 36, humidity |-> 50]],
      [main |-> [temp |-> 25, humidity |-> 60]] }
ForecastPayloads(t) ==
    { [list |-> << [dt |-> t + 180] >>] }

\* f"{lat},{lon}"
cache_key(lat, lon) == <<lat, lon>>

Idle ==
    [pc |-> "idle", endpoint |-> "none", lat |-> "", lon |-> "",
     language |-> "en", crop |-> "", soil_data |-> EmptyDict,
     weather_data |-> None, response |-> None,
     calls |-> 0, seen |-> None, fresh |-> FALSE]

\* jsonify(body) with status 200, and jsonify({'error': message}), status
JsonOk(body) == [status |-> 200, body |-> body]
JsonError(status, message) == [status |-> status, error |-> message]

Return(r, response) == [r EXCEPT !.pc = "done", !.response = response]

\* Requests are numbered in the order their handlers are entered.
InOrder(t) == \A u \in Threads : u < t => req[u].pc # "idle"

Entered(t, endpoint, lat, lon) ==
    [req[t] EXCEPT !.endpoint = endpoint, !.lat = lat, !.lon = lon,
                   !.seen = Get(weather_cache, cache_key(lat, lon), None),
                   !.fresh = /\ cache_key(lat, lon) \in DOMAIN weather_cache
                             /\ now - weather_cache[cache_key(lat, lon)].timestamp[2] < 10]

\* The call get_weather_data(lat, lon, api_key).
CallGetWeatherData(r) ==
    [r EXCEPT !.pc = "get_weather_data", !.calls = r.calls + 1]

\* datetime.now() - cache_time < timedelta(minutes=10)
CACHE_MINUTES == 10
\* The lifetime written as timedelta(seconds=10).
cache_fresh_seconds(cached_data, t) ==
    (t - fromisoformat(cached_data.timestamp)) * 60 < CACHE_MINUTES
cache_fresh(cached_data, t) ==
    t - fromisoformat(cached_data.timestamp) < CACHE_MINUTES

\* weather_cache.setdefault(cache_key, weather_data): an entry is never replaced.
CacheStore_setdefault(key, weather_data) ==
    [k \in DOMAIN weather_cache \cup {key} |->
        IF k \in DOMAIN weather_cache THEN weather_cache[k] ELSE weather_data]
\* weather_cache[cache_key]['current'] = ...: an entry is refreshed field by field.
CacheStore_fieldwise(key, weather_data) ==
    [k \in DOMAIN weather_cache \cup {key} |->
        IF k # key THEN weather_cache[k]
        ELSE IF k \in DOMAIN weather_cache
             THEN [weather_cache[k] EXCEPT !.current = weather_data.current]
             ELSE weather_data]
\* weather_cache[cache_key] = weather_data
CacheStore(key, weather_data) ==
    [k \in DOMAIN weather_cache \cup {key} |->
        IF k = key THEN weather_data ELSE weather_cache[k]]

(***************************************************************************)
(* get_weather_data (src/app.py 55-75): two HTTP requests; an exception in *)
(* either is caught and None is returned; otherwise the snapshot is built  *)
(* with the clock read after both.  The function touches no shared state,  *)
(* so its body is one step, taken when it returns.                         *)
(***************************************************************************)
get_weather_data(lat, lon, current_answer, forecast_answer, t) ==
    IF current_answer = None \/ forecast_answer = None
    THEN None
    ELSE [current |-> current_answer, forecast |-> forecast_answer,
          timestamp |-> isoformat(t)]

get_weather_data_return(t) ==
    /\ req[t].pc = "get_weather_data"
    /\ \E current_answer \in CurrentPayloads \cup {None},
          forecast_answer \in ForecastPayloads(now) \cup {None} :
          req' = [req EXCEPT ![t] =
                    [@ EXCEPT !.pc = "fetched",
                              !.weather_data =
                                  get_weather_data(@.lat, @.lon, current_answer,
                                                   forecast_answer, now)]]
    /\ UNCHANGED <<now, weather_cache, model_loaded, api_key, args, result>>

(***************************************************************************)
(* GET /api/weather (src/app.py 197-228).                                  *)
(***************************************************************************)
get_weather_enter(t, lat, lon) ==
    /\ req[t].pc = "idle"
    /\ InOrder(t)
    /\ LET r == Entered(t, "weather", lat, lon)
           key == cache_key(lat, lon)
       IN req' = [req EXCEPT ![t] =
            IF ~api_key
            THEN Return(r, JsonError(500, "Weather API key not configured"))
            ELSE IF ~Truthy(lat) \/ ~Truthy(lon)
            THEN Return(r, JsonError(400, "Missing coordinates"))
            ELSE IF key \in DOMAIN weather_cache
                    /\ cache_fresh(weather_cache[key], now)
            THEN Return(r, JsonOk(weather_cache[key]))
            ELSE CallGetWeatherData(r)]
    /\ UNCHANGED <<now, weather_cache, model_loaded, api_key, args, result>>

get_weather_finish(t) ==
    /\ req[t].pc = "fetched"
    /\ req[t].endpoint = "weather"
    /\ LET weather_data == req[t].weather_data
       IN IF weather_data # None
          THEN /\ weather_cache' =
                      CacheStore(cache_key(req[t].lat, req[t].lon), weather_data)
               /\ req' = [req EXCEPT ![t] = Return(@, JsonOk(weather_data))]
          ELSE /\ weather_cache' = weather_cache
               /\ req' = [req EXCEPT ![t] =
                            Return(@, JsonError(500, "Weather data unavailable"))]
    /\ UNCHANGED <<now, model_loaded, api_key, args, result>>

(***************************************************************************)
(* GET /api/alerts (src/app.py 230-254).                                   *)
(***************************************************************************)
\* get_alerts with get_weather's cache check copied into it.
get_alerts_enter_cached(t, lat, lon, language) ==
    /\ req[t].pc = "idle"
    /\ InOrder(t)
    /\ LET r == [Entered(t, "alerts", lat, lon) EXCEPT !.language = language]
           key == cache_key(lat, lon)
       IN req' = [req EXCEPT ![t] =
            IF ~api_key
            THEN Return(r, JsonError(500, "Weather API key not configured"))
            ELSE IF ~Truthy(lat) \/ ~Truthy(lon)
            THEN Return(r, JsonError(400, "Missing coordinates"))
            ELSE IF key \in DOMAIN weather_cache
                    /\ cache_fresh(weather_cache[key], now)
            THEN [r EXCEPT !.pc = "fetched", !.weather_data = weather_cache[key]]
            ELSE CallGetWeatherData(r)]
    /\ UNCHANGED <<now, weather_cache, model_loaded, api_key, args, result>>

get_alerts_enter(t, lat, lon, language) ==
    /\ req[t].pc = "idle"
    /\ InOrder(t)
    /\ LET r == [Entered(t, "alerts", lat, lon) EXCEPT !.language = language]
       IN req' = [req EXCEPT ![t] =
            IF ~api_key
            THEN Return(r, JsonError(500, "Weather API key not configured"))
            ELSE IF ~Truthy(lat) \/ ~Truthy(lon)
            THEN Return(r, JsonError(400, "Missing coordinates"))
            ELSE CallGetWeatherData(r)]
    /\ UNCHANGED <<now, weather_cache, model_loaded, api_key, args, result>>

get_alerts_finish(t) ==
    /\ req[t].pc = "fetched"
    /\ req[t].endpoint = "alerts"
    /\ LET alerts == analyze_weather_alerts(req[t].weather_data,
                                            req[t].language, now)
       IN req' = [req EXCEPT ![t] =
            IF Raised(alerts)
            THEN Return(@, JsonError(500, alerts.exc))
            ELSE Return(@, JsonOk([alerts |-> alerts.value,
                                   timestamp |-> isoformat(now)]))]
    /\ UNCHANGED <<now, weather_cache, model_loaded, api_key, args, result>>

(***************************************************************************)
(* POST /api/crop-suitability (src/app.py 256-304).  The API key defaults  *)
(* to 'demo_key', so its absence is no error here.  The response dict      *)
(* subscripts LANGUAGES for 'category_text'.                               *)
(***************************************************************************)
\* round(suitability, 1): to the nearest tenth of a point
Round1(x) == ((x + Scale \div 20) \div (Scale \div 10)) * (Scale \div 10)

SuitabilityResponse(crop, suitability, category, language) ==
    LET category_text == LANGUAGES(language, category)
        message == LANGUAGES(language, "crop_suitable")
    IN IF Raised(category_text) THEN JsonError(500, category_text.exc)
       ELSE IF Raised(message) THEN JsonError(500, message.exc)
       ELSE JsonOk([crop |-> crop,
                    suitability_percentage |-> Round1(suitability),
                    category |-> category,
                    category_text |-> category_text.value,
                    message |-> <<message.value, Round1(suitability)>>])

crop_suitability_enter(t, crop, lat, lon, soil_data, language) ==
    /\ req[t].pc = "idle"
    /\ InOrder(t)
    /\ LET r == [Entered(t, "crop-suitability", lat, lon) EXCEPT
                    !.crop = crop, !.soil_data = soil_data,
                    !.language = language]
       IN req' = [req EXCEPT ![t] =
            IF ~Truthy(crop) \/ ~Truthy(lat) \/ ~Truthy(lon)
            THEN Return(r, JsonError(400, "Missing required parameters"))
            ELSE CallGetWeatherData(r)]
    /\ UNCHANGED <<now, weather_cache, model_loaded, api_key, args, result>>

crop_suitability_finish(t) ==
    /\ req[t].pc = "fetched"
    /\ req[t].endpoint = "crop-suitability"
    /\ LET suitability == calculate_crop_suitability(req[t].crop,
                              req[t].weather_data, req[t].soil_data)
       IN req' = [req EXCEPT ![t] =
            Return(@, SuitabilityResponse(@.crop, suitability,
                                          Category(suitability), @.language))]
    /\ UNCHANGED <<now, weather_cache, model_loaded, api_key, args, result>>

\* Time passes, in steps of half the cache lifetime.
TickMinutes == CACHE_MINUTES \div 2
Tick ==
    /\ now + TickMinutes <= MaxTicks * TickMinutes
    /\ now' = now + TickMinutes
    /\ UNCHANGED <<weather_cache, model_loaded, api_key, req, args, result>>

Init ==
    /\ now = 0
    /\ weather_cache = EmptyDict
    /\ model_loaded \in BOOLEAN
    /\ api_key \in BOOLEAN
    /\ req = [t \in Threads |-> Idle]
    /\ args = None
    /\ result = None

Next ==
    \/ Tick
    \/ \E t \in Threads :
         \/ \E q \in WeatherRequests : get_weather_enter(t, q.lat, q.lon)
         \/ get_weather_finish(t)
         \/ \E q \in AlertRequests :
                get_alerts_enter(t, q.lat, q.lon, q.lang)
         \/ get_alerts_finish(t)
         \/ \E q \in SuitabilityRequests :
                crop_suitability_enter(t, q.crop, q.latitude, q.longitude,
                                       q.soil, q.language)
         \/ crop_suitability_finish(t)
         \/ get_weather_data_return(t)

Spec == Init /\ [][Next]_vars

(***************************************************************************)
(* POST /api/predict-yield (src/app.py 306-375).  The handler shares only  *)
(* the read-only globals model_loaded and predictor with the rest.  The    *)
(* regressor is opaque: prediction is what model.predict returned, or the  *)
(* exception it raised.  malformed says that float() or int() raises on    *)
(* one of the request's fields.                                            *)
(***************************************************************************)
\* What load_ml_model left in predictor: the artifact, or None.
Artifact ==
    [regions |-> <<"Maharashtra", "Punjab">>, crops |-> <<"Rice", "Wheat">>]
predictor == IF model_loaded THEN Artifact ELSE None

\* x in classes, and encoder.transform([x])[0]: the index among the classes
Contains(classes, x) == \E i \in DOMAIN classes : classes[i] = x
Transform(classes, x) == (CHOOSE i \in DOMAIN classes : classes[i] = x) - 1

\* The temperature term alone, the rainfall left out.
weather_score_temperature_only(temperature, rainfall) ==
    Min(Points(100), Max(0, Points(100) - Abs(temperature - 25) * 2 * Scale))
\* 100 - abs(temperature - 25) * 2 - abs(rainfall - 1000) * 0.05, clamped
weather_score(temperature, rainfall) ==
    Min(Points(100),
        Max(0, Points(100) - Abs(temperature - 25) * 2 * Scale
                 - Abs(rainfall - 1000) * (Scale \div 20)))
\* 100 - abs(soil_ph - 6.5) * 10, clamped; soil_ph in tenths
soil_score(soil_ph) ==
    Min(Points(100), Max(0, Points(100) - Abs(soil_ph - 65) * Scale))
irrigation_score(irrigation_quality) == Points(irrigation_quality * 20)

\* Medium also asks for soil_score > 50.
confidence_symmetric(ws, ss) ==
    IF ws > Points(70) /\ ss > Points(70) THEN "High"
    ELSE IF ws > Points(50) /\ ss > Points(50) THEN "Medium"
    ELSE "Low"
confidence(ws, ss) ==
    IF ws > Points(70) /\ ss > Points(70) THEN "High"
    ELSE IF ws > Points(50) THEN "Medium"
    ELSE "Low"

weather_impact(ws) ==
    IF ws > Points(70) THEN "Good"
    ELSE IF ws > Points(50) THEN "Moderate" ELSE "Poor"
soil_impact(ss) ==
    IF ss > Points(70) THEN "Good"
    ELSE IF ss > Points(50) THEN "Moderate" ELSE "Poor"
\* The lowest tier named like the other two factors' lowest tier.
irrigation_impact_poor(irrigation_quality) ==
    IF irrigation_quality >= 4 THEN "Excellent"
    ELSE IF irrigation_quality >= 3 THEN "Good" ELSE "Poor"
irrigation_impact(irrigation_quality) ==
    IF irrigation_quality >= 4 THEN "Excellent"
    ELSE IF irrigation_quality >= 3 THEN "Good" ELSE "Adequate"

\* model.predict(X_input)[0]: the regressor's answer to the eleven features
ModelPredict(X_input, prediction) ==
    IF Len(X_input) = 11 THEN prediction ELSE Raise("ValueError")

predict_yield(data, prediction) ==
    IF ~model_loaded \/ predictor = None
    THEN JsonError(500, "ML model not available")
    ELSE IF Get(data, "malformed", FALSE)
    THEN JsonError(500, "Prediction failed")
    ELSE
      LET region == Get(data, "region", "Maharashtra")
          crop == Get(data, "crop", "Wheat")
          year == Get(data, "year", 2024)
          temperature == Get(data, "temperature", 25)
          rainfall == Get(data, "rainfall", 1000)
          soil_ph == Get(data, "soil_ph", 65)
          nitrogen == Get(data, "nitrogen", 50)
          phosphorus == Get(data, "phosphorus", 30)
          potassium == Get(data, "potassium", 40)
          organic_matter == Get(data, "organic_matter", 25)
          irrigation_quality == Get(data, "irrigation_quality", 3)
          region_encoded == IF Contains(predictor.regions, region)
                            THEN Transform(predictor.regions, region) ELSE 0
          crop_encoded == IF Contains(predictor.crops, crop)
                          THEN Transform(predictor.crops, crop) ELSE 0
          X_input == <<region_encoded, crop_encoded, year, temperature,
                       rainfall, soil_ph, nitrogen, phosphorus, potassium,
                       organic_matter, irrigation_quality>>
          predicted_yield == ModelPredict(X_input, prediction)
          ws == weather_score(temperature, rainfall)
          ss == soil_score(soil_ph)
      IN IF Raised(predicted_yield)
         THEN JsonError(500, "Prediction failed")
         ELSE JsonOk([predicted_yield |-> predicted_yield.value,
                      unit |-> "kg/hectare",
                      confidence |-> confidence(ws, ss),
                      factors |->
                          [weather_impact |-> weather_impact(ws),
                           soil_impact |-> soil_impact(ss),
                           irrigation_impact |->
                               irrigation_impact(irrigation_quality)]])

(***************************************************************************)
(* Direct calls of the rule functions and of predict_yield, on inputs      *)
(* drawn from bounded sets.  The server's threads stay idle.               *)
(***************************************************************************)
NoServer ==
    /\ weather_cache = EmptyDict
    /\ req = [t \in Threads |-> Idle]

Snapshot(current, forecast, t) ==
    [current |-> current, forecast |-> forecast, timestamp |-> isoformat(t)]

\* --- analyze_weather_alerts ---
AlertMains ==
    { [temp |-> t, humidity |-> h] : t \in {30, 31, 35, 36}, h \in {20, 29, 30, 50} }
      \cup { [temp |-> 36], [temp |-> 31], [humidity |-> 20] }
AlertCurrents == { [main |-> m] : m \in AlertMains } \cup { [cod |-> 401] }

DrySlot(dt) == [dt |-> dt]
RainSlot(dt) == [dt |-> dt, rain |-> 1]
\* k slots without rain, three hours apart
DrySlots(k, t) == [i \in 1..k |-> DrySlot(t + 180 * i)]
Tails(t) ==
    { <<>>, <<RainSlot(t + 90)>>, <<RainSlot(t + 120)>>, <<RainSlot(t + 121)>>,
      <<RainSlot(t + 180)>>, <<RainSlot(t - 30)>>,
      <<RainSlot(t + 180), RainSlot(t + 90)>>,
      <<RainSlot(t + 90), RainSlot(t + 60)>>,
      <<RainSlot(t + 360), DrySlot(t + 540), RainSlot(t + 60)>> }
ForecastLists(t) ==
    { DrySlots(k, t) \o tail : k \in 0..MaxDry, tail \in Tails(t) }
AlertForecasts(t) ==
    { [list |-> l] : l \in ForecastLists(t) } \cup { [cod |-> 404] }
AlertCalls(t) ==
    { [weather_data |-> Snapshot(c, f, t), language |-> l] :
          c \in AlertCurrents, f \in AlertForecasts(t), l \in Languages }
      \cup { [weather_data |-> None, language |-> "en"] }

InitAlerts ==
    /\ now \in {0, 45}
    /\ args \in AlertCalls(now)
    /\ result = None
    /\ model_loaded = TRUE
    /\ api_key = TRUE
    /\ NoServer

analyze_weather_alerts_call ==
    /\ result = None
    /\ result' = analyze_weather_alerts(args.weather_data, args.language, now)
    /\ UNCHANGED <<now, weather_cache, model_loaded, api_key, req, args>>

SpecAlerts == InitAlerts /\ [][analyze_weather_alerts_call]_vars

\* --- calculate_crop_suitability ---
SuitabilityWeather ==
    { Snapshot([main |-> [temp |-> t, humidity |-> h]], [list |-> <<>>], 0) :
          t \in {-30, 0, 25, 26, 45, 75, 80}, h \in {0, 10, 59, 60, 100, 130} }
      \cup { Snapshot([main |-> [temp |-> 25]], [list |-> <<>>], 0),
             Snapshot([main |-> [humidity |-> 60]], [list |-> <<>>], 0),
             Snapshot([cod |-> 401], [cod |-> 401], 0),
             None }
SuitabilitySoils ==
    { EmptyDict, [ph |-> 65], [ph |-> 30], [ph |-> 70], [ph |-> 0],
      [ph |-> 140], [nitrogen |-> 50] }
SuitabilityCalls ==
    { [crop |-> "Wheat", weather_data |-> w, soil_data |-> s] :
          w \in SuitabilityWeather, s \in SuitabilitySoils }

InitSuitability ==
    /\ now = 0
    /\ args \in SuitabilityCalls
    /\ result = None
    /\ model_loaded \in BOOLEAN
    /\ api_key = TRUE
    /\ NoServer

calculate_crop_suitability_call ==
    /\ result = None
    /\ result' = Ok(calculate_crop_suitability(args.crop, args.weather_data,
                                               args.soil_data))
    /\ UNCHANGED <<now, weather_cache, model_loaded, api_key, req, args>>

SpecSuitability == InitSuitability /\ [][calculate_crop_suitability_call]_vars

\* --- predict_yield ---
YieldRequests ==
    { [region |-> r, crop |-> "Wheat", temperature |-> t, rainfall |-> f,
       soil_ph |-> p, irrigation_quality |-> q, malformed |-> FALSE] :
          r \in {"Punjab", "Atlantis"}, t \in {25, 39, 40, 49, 50},
          f \in {1000, 1020, 1040}, p \in {65, 36, 34, 15, 14, 170},
          q \in 1..5 }
      \cup { EmptyDict, [temperature |-> 25, malformed |-> TRUE] }
\* What model.predict(X_input)[0] does.
ModelPredictions == { Ok(2500), Ok(0), Raise("ValueError") }

InitYield ==
    /\ now = 0
    /\ args \in YieldRequests
    /\ result = None
    /\ model_loaded \in BOOLEAN
    /\ api_key = TRUE
    /\ NoServer

predict_yield_call ==
    /\ result = None
    /\ \E prediction \in ModelPredictions :
          result' = predict_yield(args, prediction)
    /\ UNCHANGED <<now, weather_cache, model_loaded, api_key, req, args>>

SpecYield == InitYield /\ [][predict_yield_call]_vars

(***************************************************************************)
(* The weather cache under concurrent requests.                            *)
(***************************************************************************)
KeyOf(t) == cache_key(req[t].lat, req[t].lon)
HasCoordinates(t) == req[t].lat # "" /\ req[t].lon # ""

\* C1: a weather request that finds a cache entry for its key less than ten
\* minutes old is answered at once with exactly that entry and never calls
\* the provider.
C1_FreshEntryServed ==
    \A t \in Threads :
        (req[t].endpoint = "weather" /\ req[t].fresh) =>
            /\ req[t].pc = "done"
            /\ req[t].response = [status |-> 200, body |-> req[t].seen]
            /\ req[t].calls = 0

\* A second request was served the snapshot the first one fetched.
C1_Witness ==
    \E t1, t2 \in Threads :
        /\ t1 # t2
        /\ req[t1].endpoint = "weather" /\ req[t1].calls = 1
        /\ req[t1].pc = "done" /\ req[t1].response.status = 200
        /\ req[t2].endpoint = "weather" /\ req[t2].fresh
        /\ KeyOf(t1) = KeyOf(t2)
        /\ req[t2].response = [status |-> 200, body |-> req[t1].weather_data]
        /\ req[t2].calls = 0

\* The steps of a weather request that found no entry younger than ten minutes.
WeatherMissEnters(t) ==
    /\ req[t].pc = "idle" /\ req'[t].pc # "idle"
    /\ req'[t].endpoint = "weather"
    /\ api_key /\ req'[t].lat # "" /\ req'[t].lon # ""
    /\ ~req'[t].fresh
WeatherFetchReturns(t) ==
    /\ req[t].endpoint = "weather"
    /\ req[t].pc = "fetched" /\ req'[t].pc = "done"
Overwritten(t) ==
    weather_cache' =
        [k \in DOMAIN weather_cache \cup {KeyOf(t)} |->
            IF k = KeyOf(t) THEN req[t].weather_data ELSE weather_cache[k]]

\* C2 as stated: a weather request that finds its key absent or expired issues
\* exactly one upstream fetch and overwrites the key's entry with the newly
\* fetched snapshot, leaving the other keys alone; the expired entry is not
\* served.
C2_Original ==
    [][\A t \in Threads :
          /\ WeatherMissEnters(t) =>
                /\ req'[t].pc = "get_weather_data" /\ req'[t].calls = 1
                /\ weather_cache' = weather_cache
          /\ WeatherFetchReturns(t) =>
                /\ req[t].calls = 1 /\ req'[t].calls = 1
                /\ req[t].weather_data # None
                /\ Overwritten(t)
                /\ req'[t].response # [status |-> 200, body |-> req[t].seen]
      ]_vars

\* C2 as amended: the overwrite happens when the fetch succeeds; when it fails
\* the cache is left as it is and the request is answered with status 500.
C2_Amended ==
    [][\A t \in Threads :
          /\ WeatherMissEnters(t) =>
                /\ req'[t].pc = "get_weather_data" /\ req'[t].calls = 1
                /\ weather_cache' = weather_cache
          /\ WeatherFetchReturns(t) =>
                /\ req[t].calls = 1 /\ req'[t].calls = 1
                /\ IF req[t].weather_data # None
                   THEN /\ Overwritten(t)
                        /\ req'[t].response =
                               [status |-> 200, body |-> req[t].weather_data]
                   ELSE /\ weather_cache' = weather_cache
                        /\ req'[t].response.status = 500
                /\ req'[t].response # [status |-> 200, body |-> req[t].seen]
      ]_vars

\* A request found an expired entry, fetched, and replaced it.
C2_Witness ==
    \E t \in Threads :
        /\ req[t].endpoint = "weather" /\ req[t].pc = "done"
        /\ req[t].seen # None /\ ~req[t].fresh
        /\ req[t].calls = 1
        /\ req[t].weather_data # None
        /\ weather_cache[KeyOf(t)] = req[t].weather_data
        /\ weather_cache[KeyOf(t)] # req[t].seen

UsesWeather(t) == req[t].endpoint \in {"alerts", "crop-suitability"}
ValidRequest(t) ==
    /\ HasCoordinates(t)
    /\ req[t].endpoint = "alerts" => api_key
    /\ req[t].endpoint = "crop-suitability" => req[t].crop # ""

\* C3 as stated: an alerts or crop-suitability request that finds a cache
\* entry for its coordinates younger than ten minutes reads it and calls no
\* provider; otherwise the snapshot it fetches is stored in the cache.
C3_Original ==
    \A t \in Threads :
        (UsesWeather(t) /\ ValidRequest(t)) =>
            /\ req[t].fresh => req[t].calls = 0
            /\ (~req[t].fresh /\ req[t].pc = "done"
                  /\ req[t].weather_data # None)
                 => KeyOf(t) \in DOMAIN weather_cache

\* C3 as amended: these two handlers never consult the cache and never write
\* it: each valid request calls get_weather_data exactly once, also when the
\* cache holds a fresh entry for its coordinates, and no step of such a
\* request changes the cache.
C3_Amended ==
    [][\A t \in Threads :
          (req'[t] # req[t] /\ req'[t].endpoint \in {"alerts", "crop-suitability"})
            => /\ weather_cache' = weather_cache
               /\ (req[t].pc = "idle" /\ HasCoordinates(t)'
                     /\ (req'[t].endpoint = "alerts" => api_key)
                     /\ (req'[t].endpoint = "crop-suitability"
                           => req'[t].crop # ""))
                    => (req'[t].pc = "get_weather_data" /\ req'[t].calls = 1)
               /\ req[t].pc # "idle" => req'[t].calls = req[t].calls
      ]_vars

\* Such a request fetched although the cache held a fresh entry for its key,
\* and the entry is still the one it found.
C3_Witness ==
    \E t \in Threads :
        /\ UsesWeather(t) /\ req[t].fresh
        /\ req[t].pc = "done" /\ req[t].calls = 1
        /\ req[t].weather_data # None
        /\ req[t].weather_data # req[t].seen
        /\ weather_cache[KeyOf(t)] = req[t].seen

\* C4: whatever the interleaving, every cache entry is the whole snapshot one
\* successful get_weather_data call of a weather request for that key
\* returned, and every successful weather response is the entry the request
\* found or the snapshot it fetched itself.
C4_CacheNeverCorrupted ==
    /\ \A k \in DOMAIN weather_cache :
          /\ weather_cache[k] # None
          /\ \E t \in Threads :
                /\ req[t].endpoint = "weather" /\ KeyOf(t) = k
                /\ req[t].calls = 1 /\ req[t].pc = "done"
                /\ req[t].weather_data = weather_cache[k]
    /\ \A t \in Threads :
          (req[t].endpoint = "weather" /\ req[t].pc = "done"
             /\ req[t].response.status = 200)
            => \/ /\ req[t].fresh
                  /\ req[t].response.body = req[t].seen
               \/ /\ req[t].weather_data # None
                  /\ req[t].response.body = req[t].weather_data

\* Two requests raced on one key: both fetched, and the one that fetched
\* first stored last, so the entry is the older of the two snapshots.
C4_Witness ==
    \E t1, t2 \in Threads :
        /\ t1 # t2 /\ KeyOf(t1) = KeyOf(t2)
        /\ req[t1].endpoint = "weather" /\ req[t2].endpoint = "weather"
        /\ req[t1].pc = "done" /\ req[t2].pc = "done"
        /\ req[t1].response.status = 200 /\ req[t2].response.status = 200
        /\ req[t1].calls = 1 /\ req[t2].calls = 1
        /\ req[t1].weather_data.timestamp[2] < req[t2].weather_data.timestamp[2]
        /\ ~req[t1].fresh /\ ~req[t2].fresh /\ req[t2].seen = None
        /\ weather_cache[KeyOf(t1)] = req[t1].weather_data

(***************************************************************************)
(* The alert rules.                                                        *)
(***************************************************************************)
Returned == result # None
GivenCurrent ==
    args.weather_data # None /\ "current" \in DOMAIN args.weather_data
GivenMain ==
    IF "main" \in DOMAIN args.weather_data.current
    THEN args.weather_data.current.main ELSE EmptyDict
GivenTemp == IF "temp" \in DOMAIN GivenMain THEN GivenMain.temp ELSE 0
GivenHumidity ==
    IF "humidity" \in DOMAIN GivenMain THEN GivenMain.humidity ELSE 100
\* The forecast's first eight slots.
GivenSlots ==
    IF "list" \in DOMAIN args.weather_data.forecast
    THEN LET l == args.weather_data.forecast.list
         IN [i \in 1..(IF Len(l) < 8 THEN Len(l) ELSE 8) |-> l[i]]
    ELSE <<>>
RainIndexes == { i \in DOMAIN GivenSlots : "rain" \in DOMAIN GivenSlots[i] }
NoRainWithinTwoHours ==
    \A i \in RainIndexes : GivenSlots[i].dt - now > 120
AlertTypes(alerts) == [i \in DOMAIN alerts |-> alerts[i].type]

\* C5: for a snapshot with a current payload and no rain slot within two
\* hours, analyze_weather_alerts returns the list that holds heat_stress
\* (high) iff temperature > 35, then drought (high) iff humidity < 30 and
\* temperature > 30, and nothing else; an absent temperature counts as 0 and
\* an absent humidity as 100.
C5_Claim ==
    (Returned /\ GivenCurrent /\ NoRainWithinTwoHours) =>
        /\ ~Raised(result)
        /\ AlertTypes(result.value) =
              (IF GivenTemp > 35 THEN <<"heat_stress">> ELSE <<>>)
                \o (IF GivenHumidity < 30 /\ GivenTemp > 30
                    THEN <<"drought">> ELSE <<>>)
        /\ \A i \in DOMAIN result.value : result.value[i].severity = "high"

\* C6: at most one rain alert is emitted and the first of the first eight
\* slots that has rain data decides it: the alert (medium, whole hours) is
\* emitted iff that slot is at most two hours away; later slots and slots
\* beyond the eighth change nothing.  Stated for snapshots whose current
\* payload triggers neither heat nor drought.
C6_Claim ==
    (Returned /\ GivenCurrent /\ GivenTemp <= 35
       /\ ~(GivenHumidity < 30 /\ GivenTemp > 30)) =>
        /\ ~Raised(result)
        /\ IF RainIndexes # {}
              /\ LET first == CHOOSE i \in RainIndexes :
                                  \A j \in RainIndexes : i <= j
                 IN GivenSlots[first].dt - now <= 120
           THEN LET first == CHOOSE i \in RainIndexes :
                                 \A j \in RainIndexes : i <= j
                    minutes == GivenSlots[first].dt - now
                IN /\ Len(result.value) = 1
                   /\ result.value[1].type = "rain"
                   /\ result.value[1].severity = "medium"
                   /\ result.value[1].message[2] =
                          IF minutes >= 0 THEN minutes \div 60
                          ELSE -((-minutes) \div 60)
           ELSE result.value = <<>>

(***************************************************************************)
(* The suitability score.  Scores are in sixtieths of a point: 100 points  *)
(* is 6000.                                                                *)
(***************************************************************************)
HasWeatherFields ==
    /\ args.weather_data # None
    /\ "main" \in DOMAIN args.weather_data.current
    /\ "temp" \in DOMAIN args.weather_data.current.main
    /\ "humidity" \in DOMAIN args.weather_data.current.main
Positive(x) == IF x > 0 THEN x ELSE 0
Distance(x, y) == IF x >= y THEN x - y ELSE y - x
GivenPh == IF "ph" \in DOMAIN args.soil_data THEN args.soil_data.ph ELSE 65
\* Three times the mean of tempScore, humidityScore and phScore.
ThreeScores ==
    LET main == args.weather_data.current.main
    IN Positive(6000 - 120 * Distance(main.temp, 25))
         + Positive(6000 - 90 * Distance(main.humidity, 60))
         + Positive(6000 - 120 * Distance(GivenPh, 65))
ScoreContract ==
    /\ result.value >= 0 /\ result.value <= 6000
    /\ IF HasWeatherFields /\ model_loaded
       THEN 3 * result.value = ThreeScores
       ELSE result.value = 3000
IsExample(temp, humidity, ph) ==
    /\ HasWeatherFields /\ model_loaded
    /\ args.weather_data.current.main.temp = temp
    /\ args.weather_data.current.main.humidity = humidity
    /\ "ph" \in DOMAIN args.soil_data /\ args.soil_data.ph = ph

\* C7 as stated: the score is in [0,100]; it is 50 without a snapshot, without
\* a loaded model or with a weather field missing, and otherwise the mean of
\* the three scores; 25 degrees, 60 % and pH 6.5 give 100, and 45 degrees,
\* 10 % and pH 3 give a score below 20.
C7_Original ==
    Returned =>
        /\ ScoreContract
        /\ IsExample(25, 60, 65) => result.value = 6000
        /\ IsExample(45, 10, 30) => result.value < 1200

\* C7 as amended: as stated, but 45 degrees, 10 % and pH 3 give 115/3, about
\* 38.3: below 40 and not below 20.
C7_Amended ==
    Returned =>
        /\ ScoreContract
        /\ IsExample(25, 60, 65) => result.value = 6000
        /\ IsExample(45, 10, 30) =>
              (3 * result.value = 115 * 60 /\ result.value >= 1200
                 /\ result.value < 2400)

\* The scorer returned 115/3 for 45 degrees, 10 % and pH 3.
C7_Witness ==
    /\ Returned /\ IsExample(45, 10, 30)
    /\ result.value = 2300

\* C8: every crop-suitability request that carries crop, latitude and
\* longitude is answered with a result whose category is the threshold
\* mapping of its score (>= 80 excellent, >= 60 good, >= 40 moderate, >= 20
\* poor, else very_poor); without weather data the score is 50 and the
\* category moderate.
C8_Claim ==
    \A t \in Threads :
        (req[t].endpoint = "crop-suitability" /\ req[t].pc = "done"
           /\ req[t].crop # "" /\ HasCoordinates(t)) =>
            /\ req[t].response.status = 200
            /\ LET body == req[t].response.body
                   score == body.suitability_percentage
               IN /\ body.category =
                        IF score >= 4800 THEN "excellent"
                        ELSE IF score >= 3600 THEN "good"
                        ELSE IF score >= 2400 THEN "moderate"
                        ELSE IF score >= 1200 THEN "poor"
                        ELSE "very_poor"
                  /\ req[t].weather_data = None =>
                        (score = 3000 /\ body.category = "moderate")

(***************************************************************************)
(* The yield prediction's labels.                                          *)
(***************************************************************************)
Predicted == Returned /\ result.status = 200
GivenWeatherScore ==
    weather_score(Get(args, "temperature", 25), Get(args, "rainfall", 1000))
GivenSoilScore == soil_score(Get(args, "soil_ph", 65))

\* C9: confidence is High iff weatherScore > 70 and soilScore > 70, Medium
\* iff it is not High and weatherScore > 50, whatever soilScore is, and Low
\* otherwise.
C9_Confidence ==
    Predicted =>
        LET ws == GivenWeatherScore
            ss == GivenSoilScore
            high == ws > 70 * 60 /\ ss > 70 * 60
        IN /\ result.body.confidence = "High" <=> high
           /\ result.body.confidence = "Medium" <=> (~high /\ ws > 50 * 60)
           /\ result.body.confidence = "Low" <=> (~high /\ ws <= 50 * 60)
           /\ result.body.confidence \in {"High", "Medium", "Low"}

\* weatherScore 71 with soilScore 69 was labelled Medium.
C9_Witness ==
    /\ Predicted
    /\ GivenWeatherScore = 71 * 60 /\ GivenSoilScore = 69 * 60
    /\ result.body.confidence = "Medium"

\* C10 as stated: with irrigationQuality in 1..5 each of the three impact
\* labels is one of Poor, Moderate, Good, Excellent, and confidence is one
\* of Low, Medium, High.
C10_Original ==
    (Predicted /\ Get(args, "irrigation_quality", 3) \in 1..5) =>
        /\ \A f \in {"weather_impact", "soil_impact", "irrigation_impact"} :
              result.body.factors[f] \in {"Poor", "Moderate", "Good", "Excellent"}
        /\ result.body.confidence \in {"Low", "Medium", "High"}

\* C10 as amended: weather_impact and soil_impact are one of Poor, Moderate,
\* Good; irrigation_impact is one of Adequate, Good, Excellent (Adequate for
\* irrigationQuality 1 and 2, Good for 3, Excellent for 4 and 5); confidence
\* is one of Low, Medium, High.
C10_Amended ==
    (Predicted /\ Get(args, "irrigation_quality", 3) \in 1..5) =>
        LET q == Get(args, "irrigation_quality", 3)
        IN /\ result.body.factors.weather_impact \in {"Poor", "Moderate", "Good"}
           /\ result.body.factors.soil_impact \in {"Poor", "Moderate", "Good"}
           /\ result.body.factors.irrigation_impact =
                 IF q <= 2 THEN "Adequate"
                 ELSE IF q = 3 THEN "Good" ELSE "Excellent"
           /\ result.body.confidence \in {"Low", "Medium", "High"}

\* A prediction for irrigationQuality 2 was labelled Adequate.
C10_Witness ==
    /\ Predicted
    /\ Get(args, "irrigation_quality", 3) = 2
    /\ result.body.factors.irrigation_impact = "Adequate"

GivenTemperature == Get(args, "temperature", 25)
GivenRainfall == Get(args, "rainfall", 1000)
GivenSoilPh == Get(args, "soil_ph", 65)
GivenIrrigation == Get(args, "irrigation_quality", 3)
\* The scorer's tempScore and phScore on the prediction request's inputs.
ScorerTempScore == temp_score(GivenTemperature)
ScorerPhScore == ph_score([ph |-> GivenSoilPh])

\* C11 as stated: the predictor's weatherScore is the scorer's tempScore
\* max(0, 100 - |temperature-25|*2), its soilScore is the scorer's phScore
\* max(0, 100 - |soilPh-6.5|*20), and irrigationScore is
\* irrigationQuality*20, for all inputs.
C11_Original ==
    Predicted =>
        /\ GivenWeatherScore = ScorerTempScore
        /\ GivenSoilScore = ScorerPhScore
        /\ irrigation_score(GivenIrrigation) = GivenIrrigation * 20 * 60

\* C11 as amended: weatherScore is
\* min(100, max(0, 100 - |temperature-25|*2 - |rainfall-1000|*0.05)), which
\* is the scorer's tempScore only when rainfall is 1000 (or both are 0) and
\* below it otherwise; soilScore is min(100, max(0, 100 - |soilPh-6.5|*10)),
\* which is the scorer's phScore only when soilPh is 6.5 (or both are 0) and
\* above it otherwise; irrigationScore is irrigationQuality*20; and the
\* labels of the response are those of these input-only scores, whatever the
\* regression model predicted.
C11_Amended ==
    Predicted =>
        LET ws == GivenWeatherScore
            ss == GivenSoilScore
        IN /\ ws = Min(6000, Max(0, 6000 - Abs(GivenTemperature - 25) * 120
                                       - Abs(GivenRainfall - 1000) * 3))
           /\ ss = Min(6000, Max(0, 6000 - Abs(GivenSoilPh - 65) * 60))
           /\ irrigation_score(GivenIrrigation) = GivenIrrigation * 20 * 60
           /\ ws <= ScorerTempScore
           /\ ws = ScorerTempScore
                 <=> (GivenRainfall = 1000 \/ ScorerTempScore = 0)
           /\ ss >= ScorerPhScore
           /\ ss = ScorerPhScore <=> (GivenSoilPh = 65 \/ ss = 0)
           /\ result.body.confidence = confidence(ws, ss)
           /\ result.body.factors.weather_impact = weather_impact(ws)
           /\ result.body.factors.soil_impact = soil_impact(ss)

\* A prediction whose rainfall of 1040 pulled weatherScore (70) below the
\* scorer's tempScore (72), and whose soilPh of 3.6 gave soilScore 71 where
\* the scorer's phScore is 42: the response says Moderate and Good where the
\* scorer's formulas would say Good and Poor.
C11_Witness ==
    /\ Predicted
    /\ GivenTemperature = 39 /\ GivenRainfall = 1040 /\ GivenSoilPh = 36
    /\ GivenWeatherScore = 70 * 60 /\ ScorerTempScore = 72 * 60
    /\ GivenSoilScore = 71 * 60 /\ ScorerPhScore = 42 * 60
    /\ result.body.factors.weather_impact = "Moderate"
    /\ result.body.factors.soil_impact = "Good"

====
